---- MODULE Spec2Model ----
(***************************************************************************)
(* Model of the URL shortener Lambda handler (karlabo93/urlshortener).     *)
(*                                                                         *)
(* State: the DynamoDB table (store), the wall clock read by time.Now(),   *)
(* and, per concurrently running Lambda invocation, the handler position   *)
(* (pc), the request being served and the locals of getOriginalURL that    *)
(* live across its two store calls.  The variable returned holds what the  *)
(* most recently finished invocation gave back: its request, its response  *)
(* and error value, the store calls and log lines it made with their       *)
(* outcomes, the item its lookup found, and whether one of its calls       *)
(* changed the table.  The variables issued and promised record which long *)
(* URLs were handed out under which short code, and nreq counts the        *)
(* requests received.                                                      *)
(*                                                                         *)
(* Strings that the code computes on (the decimal rendering of the clock,  *)
(* the short code) are sequences of one-character strings.  UnixNano does  *)
(* not fit the model checker's integers, so an instant is kept as the pair *)
(* (sec, nsec) with UnixNano = sec * 10^9 + nsec, and its decimal          *)
(* rendering is computed digit by digit from the pair.                     *)
(***************************************************************************)
EXTENDS Integers, Sequences, FiniteSets, TLC

VARIABLES store, now, pc, req, urlMapping, promised, returned, issued, nreq

vars == <<store, now, pc, req, urlMapping, promised, returned, issued, nreq>>

(***************************************************************************)
(* Bounds of the model.                                                    *)
(***************************************************************************)
\* Number of Lambda invocations that may be in flight at once.
NumInvocations == 2
\* Total number of requests served in a behaviour.
MaxRequests == 3
\* Number of clock advances in a behaviour.
MaxTicks == 2

Invocations == 1..NumInvocations

(***************************************************************************)
(* The clock.  The first instant is 2025-11-05 00:00:00 UTC; the clock     *)
(* advances in steps of TickSeconds, so that two consecutive instants may  *)
(* or may not share the first eight digits of their UnixNano rendering.    *)
(***************************************************************************)
StartSec == 17623008 * 100
TickSeconds == 5 * 10

NilString == ""
NoError == "nil"

(***************************************************************************)
(* fmt.Sprintf("%d", n): decimal rendering.                                *)
(***************************************************************************)
DigitChar(d) == <<"0", "1", "2", "3", "4", "5", "6", "7", "8", "9">>[d + 1]

RECURSIVE FormatNat(_)
FormatNat(n) == IF n < 10 THEN <<DigitChar(n)>>
                ELSE Append(FormatNat(n \div 10), DigitChar(n % 10))

RECURSIVE ZeroPad(_, _)
ZeroPad(s, width) == IF Len(s) >= width THEN s ELSE ZeroPad(<<"0">> \o s, width)

\* Decimal digits of t.sec * 10^9 + t.nsec, for an instant at or after the epoch.
FormatUnixNano(t) == IF t.sec = 0 THEN FormatNat(t.nsec)
                     ELSE FormatNat(t.sec) \o ZeroPad(FormatNat(t.nsec), 9)

(***************************************************************************)
(* generateShortURL: the first ShortURLLen characters of the rendering.    *)
(***************************************************************************)
ShortURLLen == 8

generateShortURLUntruncated(t) == FormatUnixNano(t)

generateShortURL(t) == SubSeq(FormatUnixNano(t), 1, ShortURLLen)

\* A later reading of the clock inside the same invocation.
AddNanos(t, d) == [sec |-> t.sec, nsec |-> t.nsec + d]

(***************************************************************************)
(* Request inputs.                                                         *)
(***************************************************************************)
LongURLs == {"https://example.com", "https://go.dev"}

\* A request body is JSON text: either text with a syntax error, or an
\* object given by the sequence of its members.
JSONObject(members) == [syntax |-> TRUE, members |-> members]
StringMember(k, v) == [key |-> k, type |-> "string", value |-> v]
NumberMember(k, v) == [key |-> k, type |-> "number", value |-> v]

MalformedBody == [syntax |-> FALSE, members |-> <<>>]
EmptyObjectBody == JSONObject(<<>>)
OtherFieldBody == JSONObject(<<StringMember("url", "https://example.com")>>)
NumberBody == JSONObject(<<NumberMember("long_url", "5")>>)
LongURLBody(u) == JSONObject(<<StringMember("long_url", u)>>)

Bodies == {MalformedBody, EmptyObjectBody, OtherFieldBody, NumberBody}
            \cup {LongURLBody(u) : u \in LongURLs}

\* Whether the body is well-formed JSON carrying a string long_url.
HasLongURL(body) ==
    /\ body.syntax
    /\ \E i \in 1..Len(body.members) :
          body.members[i].key = "long_url" /\ body.members[i].type = "string"

UnrelatedCode == <<"0", "0", "0", "0", "0", "0", "0", "0">>

Instants == {[sec |-> StartSec + k * TickSeconds, nsec |-> 0] : k \in 0..MaxTicks}

PathCodes == {generateShortURL(t) : t \in Instants} \cup {UnrelatedCode}

Requests ==
    [HTTPMethod : {"POST"}, Body : Bodies, shortURL : {<<>>}]
      \cup [HTTPMethod : {"GET"}, Body : {MalformedBody}, shortURL : PathCodes]
      \cup [HTTPMethod : {"DELETE"}, Body : {LongURLBody("https://go.dev")},
            shortURL : PathCodes]

NoRequest == [HTTPMethod |-> "", Body |-> MalformedBody, shortURL |-> <<>>]

(***************************************************************************)
(* json.Unmarshal([]byte(request.Body), &createReq)                        *)
(***************************************************************************)
RECURSIVE DecodeMembers(_, _)
DecodeMembers(members, acc) ==
    IF members = <<>> THEN acc
    ELSE LET m == Head(members)
             next == IF m.key # "long_url" THEN acc
                     ELSE IF m.type = "string"
                          THEN [acc EXCEPT !.createReq.LongURL = m.value]
                          ELSE IF acc.err = NoError
                               THEN [acc EXCEPT !.err = "json: cannot unmarshal"]
                               ELSE acc
         IN DecodeMembers(Tail(members), next)

Unmarshal(body) ==
    IF ~body.syntax
    THEN [err |-> "json: syntax error", createReq |-> [LongURL |-> NilString]]
    ELSE DecodeMembers(body.members,
                       [err |-> NoError, createReq |-> [LongURL |-> NilString]])

(***************************************************************************)
(* The DynamoDB table, keyed by short_url.  Every call may fail (ok =      *)
(* FALSE) and a failed call leaves the table as it was.                    *)
(***************************************************************************)
EmptyTable == [k \in {} |-> NilString]

NilItem == [nil |-> TRUE]

PutItem(table, item, ok) ==
    IF ok THEN [err |-> NoError, table |-> (item.short_url :> item) @@ table]
    ELSE [err |-> "PutItem failed", table |-> table]

GetItem(table, key, ok) ==
    IF ~ok THEN [err |-> "GetItem failed", Item |-> NilItem]
    ELSE IF key \in DOMAIN table THEN [err |-> NoError, Item |-> table[key]]
    ELSE [err |-> NoError, Item |-> NilItem]

\* The update expression of getOriginalURL, as its tokens.
UpdateExpressionDecrement ==
    <<"SET", "access_count", "=", "access_count", "-", ":inc">>

UpdateExpression == <<"SET", "access_count", "+", ":inc">>

\* The value bound to :inc.
IncValue == 1

\* A SET action is "path = operand"; the arithmetic form is
\* "path = path + :value" or "path = path - :value".
ValidUpdateExpression(expr) ==
    /\ Len(expr) = 6
    /\ expr[1] = "SET"
    /\ expr[3] = "="
    /\ expr[2] = "access_count" /\ expr[4] = "access_count"
    /\ expr[5] \in {"+", "-"}
    /\ expr[6] = ":inc"

UpdateItem(table, key, expr, ok) ==
    IF ~ok THEN [err |-> "UpdateItem failed", table |-> table]
    ELSE IF ~ValidUpdateExpression(expr)
    THEN [err |-> "ValidationException: Invalid UpdateExpression", table |-> table]
    ELSE IF key \notin DOMAIN table
    THEN [err |-> "ValidationException: attribute does not exist", table |-> table]
    ELSE [err |-> NoError,
          table |-> [table EXCEPT ![key].access_count =
                        IF expr[5] = "+" THEN @ + IncValue ELSE @ - IncValue]]

\* attributevalue.UnmarshalMap(result.Item, &urlMapping): a nil item leaves
\* the zero value.  Items of the table were written by createShortURL, so
\* they all deserialize.
NoMapping == [short_url |-> <<>>, long_url |-> NilString,
              created_at |-> [sec |-> 0, nsec |-> 0], access_count |-> 0]

UnmarshalMap(item) == IF item = NilItem THEN NoMapping ELSE item

(***************************************************************************)
(* Responses (events.APIGatewayProxyResponse together with the error).     *)
(***************************************************************************)
Response(status, location, body, err) ==
    [StatusCode |-> status, Location |-> location, Body |-> body, err |-> err]

NoResponse == Response(0, NilString, NilString, NoError)

\* One store call, or one log line, of an invocation and its outcome.
Call(name, err) == [call |-> name, err |-> err]

\* The long URLs that Creates answered with 201 have handed out under a code.
IssuedFor(code) == {i.long_url : i \in {j \in issued : j.short_url = code}}

NothingReturned ==
    [request |-> NoRequest, response |-> NoResponse, ops |-> <<>>,
     promised |-> {}, found |-> NoMapping, changed |-> FALSE]

Init ==
    /\ store = EmptyTable
    /\ now = [sec |-> StartSec, nsec |-> 0]
    /\ pc = [p \in Invocations |-> "idle"]
    /\ req = [p \in Invocations |-> NoRequest]
    /\ urlMapping = [p \in Invocations |-> NoMapping]
    /\ promised = [p \in Invocations |-> {}]
    /\ returned = NothingReturned
    /\ issued = {}
    /\ nreq = 0

\* An idle invocation receives a request.
Receive(p, request) ==
    /\ pc[p] = "idle"
    /\ nreq < MaxRequests
    /\ nreq' = nreq + 1

\* The handler of invocation p returns: its locals are gone.
Return(p, request, response, calls, prom, found) ==
    /\ returned' = [request |-> request, response |-> response, ops |-> calls,
                    promised |-> prom, found |-> found,
                    changed |-> (store' # store)]
    /\ pc' = [pc EXCEPT ![p] = "idle"]
    /\ req' = [req EXCEPT ![p] = NoRequest]
    /\ urlMapping' = [urlMapping EXCEPT ![p] = NoMapping]
    /\ promised' = [promised EXCEPT ![p] = {}]

(***************************************************************************)
(* handleRequest, default branch.                                          *)
(***************************************************************************)
MethodNotAllowed(p, request) ==
    /\ Receive(p, request)
    /\ UNCHANGED <<store, now, issued>>
    /\ Return(p, request, Response(405, NilString, "Method not allowed", NoError),
              <<>>, {}, NoMapping)

(***************************************************************************)
(* createShortURL.  attributevalue.MarshalMap of a URLMapping (strings, a   *)
(* time and an int) does not fail, so its error return is not an outcome.  *)
(***************************************************************************)
\* The record built from the parsed request and the two clock readings.
NewURLMapping(createReq, t, createdAt) ==
    [short_url |-> generateShortURL(t),
     long_url |-> createReq.LongURL,
     created_at |-> createdAt,
     access_count |-> 0]

\* The return after a failed PutItem.
SaveErrorReturnsNil(put) ==
    Response(500, NilString, "Error saving to DynamoDB", NoError)

SaveError(put) == Response(500, NilString, "Error saving to DynamoDB", put.err)

createShortURL(p, request) ==
    /\ Receive(p, request)
    /\ UNCHANGED now
    /\ LET parsed == Unmarshal(request.Body) IN
       IF parsed.err # NoError
       THEN /\ UNCHANGED <<store, issued>>
            /\ Return(p, request,
                      Response(400, NilString, "Invalid request body", NoError),
                      <<>>, {}, NoMapping)
       ELSE \E ok \in BOOLEAN, elapsed \in {0, 1} :
              LET mapping == NewURLMapping(parsed.createReq, now,
                                           AddNanos(now, elapsed))
                  put == PutItem(store, mapping, ok)
              IN /\ store' = put.table
                 /\ IF put.err # NoError
                    THEN /\ UNCHANGED issued
                         /\ Return(p, request, SaveError(put),
                                   <<Call("PutItem", put.err)>>, {}, NoMapping)
                    ELSE /\ issued' = issued \cup
                               {[short_url |-> mapping.short_url,
                                 long_url |-> mapping.long_url]}
                         /\ Return(p, request,
                                   Response(201, NilString, mapping, NoError),
                                   <<Call("PutItem", put.err)>>, {}, NoMapping)

(***************************************************************************)
(* getOriginalURL, up to and including the GetItem call.                   *)
(***************************************************************************)
\* The check "result.Item == nil" decides between 404 and going on.
ItemFoundAlways(result) == TRUE

ItemFound(result) == result.Item # NilItem

\* The return after a failed GetItem.
QueryError(result) ==
    Response(500, NilString, "Error querying DynamoDB", result.err)

getOriginalURL(p, request) ==
    /\ Receive(p, request)
    /\ UNCHANGED <<store, now, issued>>
    /\ \E ok \in BOOLEAN :
         LET key == request.shortURL
             result == GetItem(store, key, ok)
             calls == <<Call("GetItem", result.err)>>
         IN IF result.err # NoError
            THEN Return(p, request, QueryError(result), calls, IssuedFor(key),
                        NoMapping)
            ELSE IF ~ItemFound(result)
            THEN Return(p, request,
                        Response(404, NilString, "URL not found", NoError),
                        calls, IssuedFor(key), NoMapping)
            ELSE /\ urlMapping' = [urlMapping EXCEPT ![p] =
                                      UnmarshalMap(result.Item)]
                 /\ req' = [req EXCEPT ![p] = request]
                 /\ promised' = [promised EXCEPT ![p] = IssuedFor(key)]
                 /\ pc' = [pc EXCEPT ![p] = "UpdateItem"]
                 /\ UNCHANGED returned

(***************************************************************************)
(* getOriginalURL, from the UpdateItem call to the redirect.               *)
(***************************************************************************)
\* The return after the UpdateItem call, whatever its outcome.
RedirectUnlessUpdateFailed(mapping, upd) ==
    IF upd.err # NoError
    THEN Response(500, NilString, "Error updating access count", upd.err)
    ELSE Response(301, mapping.long_url, NilString, NoError)

Redirect(mapping, upd) == Response(301, mapping.long_url, NilString, NoError)

IncrementAndRedirect(p) ==
    /\ pc[p] = "UpdateItem"
    /\ UNCHANGED <<now, issued, nreq>>
    /\ \E ok \in BOOLEAN :
         LET upd == UpdateItem(store, req[p].shortURL, UpdateExpression, ok)
         IN /\ store' = upd.table
            /\ Return(p, req[p], Redirect(urlMapping[p], upd),
                      IF upd.err # NoError
                      THEN <<Call("GetItem", NoError), Call("UpdateItem", upd.err),
                             Call("log.Printf", upd.err)>>
                      ELSE <<Call("GetItem", NoError), Call("UpdateItem", upd.err)>>,
                      promised[p], urlMapping[p])

(***************************************************************************)
(* handleRequest: dispatch on the method.                                  *)
(***************************************************************************)
handleRequestGetByDefault(p, request) ==
    IF request.HTTPMethod = "POST" THEN createShortURL(p, request)
    ELSE getOriginalURL(p, request)

handleRequest(p, request) ==
    IF request.HTTPMethod = "POST" THEN createShortURL(p, request)
    ELSE IF request.HTTPMethod = "GET" THEN getOriginalURL(p, request)
    ELSE MethodNotAllowed(p, request)

\* The wall clock advances.
Tick ==
    /\ now.sec < StartSec + MaxTicks * TickSeconds
    /\ now' = [now EXCEPT !.sec = @ + TickSeconds]
    /\ UNCHANGED <<store, pc, req, urlMapping, promised, returned, issued, nreq>>

Post == \E p \in Invocations, r \in Requests :
            r.HTTPMethod = "POST" /\ handleRequest(p, r)
Get == \E p \in Invocations, r \in Requests :
            r.HTTPMethod = "GET" /\ handleRequest(p, r)
Other == \E p \in Invocations, r \in Requests :
            r.HTTPMethod \notin {"POST", "GET"} /\ handleRequest(p, r)
Update == \E p \in Invocations : IncrementAndRedirect(p)

Next == Post \/ Get \/ Other \/ Update \/ Tick

Spec == Init /\ [][Next]_vars

(***************************************************************************)
(* Properties.                                                             *)
(***************************************************************************)
IsCreate == returned.request.HTTPMethod = "POST"
IsResolve == returned.request.HTTPMethod = "GET"

\* The step is the UpdateItem call and return of a Resolve in invocation p.
ResolveReturns(p) == pc[p] = "UpdateItem" /\ pc'[p] = "idle"

\* The step is a whole createShortURL.
CreateStep == nreq' = nreq + 1 /\ pc' = pc /\ returned'.request.HTTPMethod = "POST"

\* C1: a Create of a long_url answered with 201, followed by a Resolve of the
\* code it returned (the store answering the lookup), yields 301 with
\* Location equal to that long_url: a finished Resolve agrees with every
\* long URL that had been handed out under its code when it began.
C1_CreateThenResolve ==
    \A u \in returned.promised \cap LongURLs :
       (IsResolve /\ returned.ops[1].err = NoError)
          => /\ returned.response.StatusCode = 301
             /\ returned.response.Location = u

\* C2: every Resolve that finds the record and returns 301 leaves the stored
\* access_count of its short code exactly one higher than before.
C2_ResolveIncrements ==
    [][\A p \in Invocations :
          (ResolveReturns(p) /\ returned'.response.StatusCode = 301)
             => /\ req[p].shortURL \in DOMAIN store'
                /\ store'[req[p].shortURL].access_count
                     = store[req[p].shortURL].access_count + 1]_vars

\* C3: a Create whose body is malformed or carries no long_url returns 400
\* and makes no store call.
C3_MissingLongURLRejected ==
    (IsCreate /\ ~HasLongURL(returned.request.Body))
        => /\ returned.response.StatusCode = 400
           /\ returned.ops = <<>>
           /\ ~returned.changed

\* C4: a Resolve of a code under which nothing was ever stored, the lookup
\* not failing, returns 404 with a nil error after the single GetItem call,
\* attempts no increment and leaves the table unchanged; no such Resolve
\* ever goes on to the increment.
C4_UnknownCodeNotFound ==
    /\ (IsResolve /\ returned.promised = {} /\ returned.ops[1].err = NoError)
          => /\ returned.response.StatusCode = 404
             /\ returned.response.err = NoError
             /\ returned.ops = <<Call("GetItem", NoError)>>
             /\ ~returned.changed
    /\ \A p \in Invocations : pc[p] = "UpdateItem" => promised[p] # {}

C4_Witness ==
    /\ IsResolve
    /\ returned.request.shortURL = UnrelatedCode
    /\ returned.response.StatusCode = 404
    /\ store # EmptyTable
    /\ UnrelatedCode \notin DOMAIN store

\* C5: a request whose method is neither POST nor GET returns 405 with a nil
\* error and makes no store call, so the table is unchanged.
C5_MethodNotAllowed ==
    (returned.request.HTTPMethod \notin {"POST", "GET", ""})
        => /\ returned.response.StatusCode = 405
           /\ returned.response.err = NoError
           /\ returned.ops = <<>>
           /\ ~returned.changed

C5_Witness ==
    /\ returned.request.HTTPMethod = "DELETE"
    /\ returned.request.shortURL \in DOMAIN store
    /\ returned.response.StatusCode = 405

\* C6: a Create with a parseable body whose PutItem succeeds returns 201 with
\* a record whose short_url has exactly 8 characters, whose long_url is the
\* request's long_url (empty when the body has none) and whose access_count
\* is 0, and right after the step the table holds exactly that record under
\* the returned short_url.
C6_CreateStoresRecord ==
    [][(/\ CreateStep
        /\ Unmarshal(returned'.request.Body).err = NoError
        /\ returned'.ops = <<Call("PutItem", NoError)>>)
          => /\ returned'.response.StatusCode = 201
             /\ LET rec == returned'.response.Body
                    members == returned'.request.Body.members
                IN /\ Len(rec.short_url) = 8
                   /\ IF HasLongURL(returned'.request.Body)
                      THEN \E i \in 1..Len(members) :
                              /\ members[i].key = "long_url"
                              /\ members[i].value = rec.long_url
                      ELSE rec.long_url = NilString
                   /\ rec.access_count = 0
                   /\ rec.short_url \in DOMAIN store'
                   /\ store'[rec.short_url] = rec]_vars

C6_Witness ==
    /\ IsCreate
    /\ returned.response.StatusCode = 201
    /\ returned.response.Body.long_url = "https://example.com"
    /\ returned.response.Body.short_url \in DOMAIN store
    /\ store[returned.response.Body.short_url] = returned.response.Body
    /\ Cardinality(DOMAIN store) = 2

\* C7: once a short code is in the table, its record is never removed and
\* its long_url and created_at never change.
C7_RecordImmutable ==
    [][\A c \in DOMAIN store :
          /\ c \in DOMAIN store'
          /\ store'[c].long_url = store[c].long_url
          /\ store'[c].created_at = store[c].created_at]_vars

\* C8: no step lowers the access_count stored under a short code that is
\* already in the table.
C8_CountNonDecreasing ==
    [][\A c \in DOMAIN store :
          /\ c \in DOMAIN store'
          /\ store'[c].access_count >= store[c].access_count]_vars

\* A code was written twice with different long URLs and then resolved.
C8_Witness ==
    /\ IsResolve
    /\ returned.response.StatusCode = 301
    /\ Cardinality(returned.promised) >= 2
    /\ returned.request.shortURL \in DOMAIN store

\* C9: a Resolve whose lookup found a record returns 301 with Location equal
\* to that record's long_url and a nil error, whatever the outcome of the
\* increment; a failed increment is logged and leaves the table unchanged.
C9_BestEffortIncrement ==
    (IsResolve /\ Len(returned.ops) >= 2)
        => /\ returned.ops[2].call = "UpdateItem"
           /\ returned.response.StatusCode = 301
           /\ returned.response.Location = returned.found.long_url
           /\ returned.found.short_url = returned.request.shortURL
           /\ returned.response.err = NoError
           /\ returned.ops[2].err # NoError
                 => /\ ~returned.changed
                    /\ Len(returned.ops) = 3
                    /\ returned.ops[3] = Call("log.Printf", returned.ops[2].err)

C9_Witness ==
    /\ IsResolve
    /\ Len(returned.ops) = 3
    /\ returned.ops[2].err # NoError
    /\ returned.response.StatusCode = 301
    /\ returned.response.Location = "https://go.dev"

\* C10: a failed PutItem of a Create or a failed GetItem of a Resolve yields
\* 500 together with that (non-nil) error, is the only store call of the
\* invocation (no retry, no increment) and leaves the table unchanged.
C10_StoreFailureIs500 ==
    (/\ returned.ops # <<>>
     /\ returned.ops[1].call \in {"PutItem", "GetItem"}
     /\ returned.ops[1].err # NoError)
        => /\ returned.response.StatusCode = 500
           /\ returned.response.err = returned.ops[1].err
           /\ returned.response.err # NoError
           /\ Len(returned.ops) = 1
           /\ ~returned.changed

C10_Witness ==
    /\ IsCreate
    /\ returned.ops = <<Call("PutItem", "PutItem failed")>>
    /\ returned.response.StatusCode = 500
    /\ store # EmptyTable

====
